---- MODULE Spec2Model ----
(***************************************************************************)
(* Model of the OR40 key-drop bot (src/or40_key_bot.py): the round state   *)
(* held in the process-wide STATE object, its JSON snapshot on disk, the   *)
(* operator panel handlers, the participant handlers and one iteration of  *)
(* automation_loop.                                                        *)
(*                                                                         *)
(* Time is counted in whole minutes since 00:00 of day 0.  A stored HH:MM  *)
(* string is the minute of the day (0..1439): strftime("%H:%M") drops the  *)
(* date, so hhmm is not injective on datetimes.  Zero-padded HH:MM strings *)
(* compare lexically exactly as their minute of the day compares.          *)
(*                                                                         *)
(* Left out: message ids, rendering of images, the ops-panel embed and the *)
(* deleter loop (none of them writes a field modelled here).               *)
(***************************************************************************)
EXTENDS Integers, FiniteSets, Sequences, TLC

\* ---------------------------------------------------------------- bounds
\* minutes of wall-clock time a behaviour covers after its start
MaxElapsed == 3
\* the same for the behaviours that run through the break before the third
\* match (BreakMinutes and no more)
MaxBreakElapsed == 5
\* the same for the behaviours in which a second submission for match 2
\* follows the break (two breaks)
MaxResubmitElapsed == 10
\* process restarts in one behaviour
MaxBoots == 1
\* presses of replay_forgot recorded in escalation_log
MaxReports == 3

\* ------------------------------------------------------- program constants
DayMinutes == 1440
None == -1
DEFAULT_MATCH_COUNT == 4
\* the match counts set_tournament accepts
MinMatchCount == 1
MaxMatchCount == 20
DEFAULT_MODE == "reload"
\* "22:15"
DEFAULT_MATCH1_START == 1335
\* the fixed key channel and the default channels of load_state (small
\* numbers stand for the channel ids; the two key channel ids are the same)
KEY_CHANNEL_FIXED_ID == 1
DEFAULT_KEY_CHANNEL_ID == 1
DEFAULT_COMMENTARY_CHANNEL_ID == 6
\* "21:58"
CHECKIN_CLOSE_HHMM == 1318
\* "22:00"
AUTO_KEYHOST_HHMM == 1320
\* lead of the key pause before the map switch: first match / later matches
LeadFirst == 7
LeadLater == 4
\* planned departure offered by a manual or replay-done distribution: now + 3
PlannedOffset == 3
\* departure candidate at queue_ready: now + 2
ConfirmOffset == 2
\* break before the third match
BreakMinutes == 5

\* the configured event date (panel_state.json), as a day number
get_event_date == 1
\* "22:00", the tournament start when panel_state.json names none
DEFAULT_TOURNAMENT_START == 1320

\* ------------------------------------------------------------ inputs
\* instants at which a behaviour may start (day * 1440 + minute of day)
\* 21:58 of the event day, 21:59 of the day before
StartTimes == {1440 + 1318, 1319}
\* 23:58 of the event day (midnight follows), 22:30 of the event day
PauseStartTimes == {1440 + 1438, 1440 + 1350}
\* 22:30 of the event day
RoundStartTimes == {1440 + 1350}
\* 22:10 of the event day
BreakStartTimes == {1440 + 1330}
\* the day after the event, 12:30
LaterDayStartTimes == {2 * 1440 + 750}
\* 21:29, 21:49, 21:54 and 21:57 of the event day, 23:58 of the event day
\* (midnight follows), 21:58 of the day before
CheckinStartTimes == {1440 + 1289, 1440 + 1309, 1440 + 1314, 1440 + 1317,
                      1440 + 1438, 1318}
\* minutes typed into the map-remaining modal
RemainingChoices == {0, 5}
\* a remaining time whose pause window ends within MaxElapsed minutes
ShortRemaining == {2}
\* arguments of set_tournament: a mode string ("" when not given), a match
\* count (None when not given), a start time as the pair of numbers around
\* the colon (<<>> when not given)
ModeInputs == {"", "tournament", "league"}
CountInputs == {None, 0, 2}
StartInputs == {<<>>, <<22, 20>>, <<25, 0>>}

\* credentials generate_key may draw
Keys == {1, 2}
Matches == 1..DEFAULT_MATCH_COUNT
\* rank contacts typed into the replay-request modal: participant numbers
\* 1 ("001"), 2, 3; None is a field left blank
\* the log entry of a press whose target could not be reached
Failed == -2
BlankRanks == {<<None, None, None>>}
RankChoices == {<<1, None, 3>>, <<1, 2, 3>>}
\* tournament_start_time in the entry bot's panel_state.json: absent, "21:59"
NoPanelStart == {None}
PanelStarts == {None, 1319}

\* channel names the guild may hold, each written as the digits its name
\* starts with: "001-...", "002-...", "12-..."
ChannelNames == {<<0, 0, 1>>, <<0, 0, 2>>, <<1, 2>>}
\* numbers typed into mark_checkin: "001", "002", "12"
NumberInputs == {<<0, 0, 1>>, <<0, 0, 2>>, <<1, 2>>}

VARIABLES
    State,              \* the in-memory BotState (dataclass fields)
    disk,               \* the JSON snapshot written by save_state
    pending,            \* attributes set on STATE that are no dataclass fields
    match2_break_task,  \* the scheduled _deliver task: None or its notify time
    views,              \* match numbers of the live ReplaySubmitView messages
    button,             \* a keyhost message carrying the queue_ready button exists
    now,                \* the clock
    deadline,           \* the instant at which the behaviour's clock stops
    checkin_up,         \* sends to the checkin and key channels succeed
    boots,              \* restarts so far
    ev,                 \* what the last handler did
    panel_state,        \* tournament_start_time of the entry bot's panel_state.json
    escalation_log,     \* what each replay_forgot did since the contacts were set
    reset_since_schedule, \* a full reset came after the break task was scheduled
    running,            \* the process is up (STATE = load_state() succeeded)
    suspended,          \* the local k of a keyhost_notify_once waiting at an await
    posted_in_round,    \* distributions that succeeded in this round (capped)
    delivered,          \* unforced deliveries of each checkin phase today (capped)
    guild               \* names of the guild's text and voice channels

vars == <<State, disk, pending, match2_break_task, views, button, now, deadline,
          checkin_up, boots, ev, panel_state, escalation_log,
          reset_since_schedule, running, suspended, posted_in_round,
          delivered, guild>>

\* ------------------------------------------------------------ time helpers
hhmm(dt) == dt % DayMinutes

date_of(dt) == dt \div DayMinutes

\* parse_hhmm_dt: the base datetime with hour and minute replaced
parse_hhmm_dt(hhmm_str, base) == date_of(base) * DayMinutes + hhmm_str

\* parse_hhmm is called at lines 172, 2721, 3352-3354 and 3711 and is neither
\* defined nor imported anywhere in the file: every call raises NameError,
\* which the enclosing try/except swallows.
parse_hhmm_raises == TRUE

is_in_pause_window(S, t) ==
    /\ S.key_pause_from # None
    /\ S.key_pause_to # None
    /\ parse_hhmm_dt(S.key_pause_from, t) <= t
    /\ t < parse_hhmm_dt(S.key_pause_to, t)

is_event_day(t) == date_of(t) = get_event_date

\* load_entry_tournament_start_time(): the configured HH:MM, or "22:00"
load_entry_tournament_start_time ==
    IF panel_state = None THEN DEFAULT_TOURNAMENT_START ELSE panel_state

get_tournament_start_dt == get_event_date * DayMinutes + load_entry_tournament_start_time

\* ------------------------------------------------------------ persistence
BotState ==
    [ key_channel_id |-> None,
      keyhost_channel_id |-> FALSE,
      commentary_channel_id |-> None,
      ops_panel_channel_id |-> None,
      ops_panel_message_id |-> None,
      mode |-> DEFAULT_MODE,
      match_count |-> DEFAULT_MATCH_COUNT,
      match1_start |-> DEFAULT_MATCH1_START,
      match_no |-> 1,
      phase |-> "INIT",
      emergency_stop |-> FALSE,
      map_switch_time |-> None,
      map_remaining_min |-> None,
      key_pause_from |-> None,
      key_pause_to |-> None,
      auto_enabled |-> FALSE,
      checkin_closed |-> FALSE,
      keyhost_notified_once |-> FALSE,
      checkin_phase1_sent_date |-> None,
      checkin_phase2_sent_date |-> None,
      checkin_phase3_sent_date |-> None,
      checkin_phase4_sent_date |-> None,
      replay_rank_match_no |-> None,
      replay_rank1 |-> None,
      replay_rank2 |-> None,
      replay_rank3 |-> None,
      replay_rank_stage |-> 0,
      custom_key |-> None,
      planned_departure |-> None,
      departure_time |-> None,
      used_keys |-> {},
      checked_in_numbers |-> {},
      declined_numbers |-> {},
      forfeit_numbers |-> {} ]

\* asdict(s): the dataclass fields, and only those
save_state(S) == S

\* the file after open(STATE_PATH, "w") and a part of json.dump: a proper
\* prefix of a JSON document
Torn == [torn |-> TRUE]

\* json.load(f) on a file that holds no whole JSON document
json_load_raises(D) == D = Torn

load_state_forgetting_flags(D) ==
    [D EXCEPT !.keyhost_notified_once = FALSE,
              !.checkin_phase1_sent_date = None,
              !.checkin_phase2_sent_date = None,
              !.checkin_phase3_sent_date = None,
              !.checkin_phase4_sent_date = None]

\* BotState(**filtered): every stored field comes back as stored, and a
\* missing key or commentary channel becomes the default one
load_state(D) ==
    [D EXCEPT !.key_channel_id = IF @ = None THEN DEFAULT_KEY_CHANNEL_ID ELSE @,
              !.commentary_channel_id =
                  IF @ = None THEN DEFAULT_COMMENTARY_CHANNEL_ID ELSE @]

\* attributes assigned on STATE that BotState does not declare; getattr
\* defaults stand for "never assigned"
NoPending ==
    [ pending_next_match_no |-> None,
      pending_keyhost_send |-> FALSE,
      pending_keyhost_send_at |-> None ]

\* ev after a handler the properties below do not name
NoEvent ==
    [ op |-> "", reason |-> "", called |-> FALSE, posted |-> FALSE,
      ok |-> FALSE, caster |-> FALSE, target |-> None, announced |-> FALSE,
      forced |-> {} ]

Event(op) == [NoEvent EXCEPT !.op = op]

\* snapshots state.json may hold when the process starts: none (load_state
\* then returns BotState()), or one written by set_keyhost_target, or one
\* written by set_keyhost_target and the match_2 button
NoSnapshot == save_state(BotState)

ConfiguredSnapshot == save_state([BotState EXCEPT !.keyhost_channel_id = TRUE])

SecondMatchSnapshot ==
    save_state([BotState EXCEPT !.keyhost_channel_id = TRUE, !.match_no = 2])

\* one with a key host channel whose used_keys holds the keys in used
UsedKeysSnapshot(used) ==
    save_state([BotState EXCEPT !.keyhost_channel_id = TRUE, !.used_keys = used])

\* one written after the channels, the ops panel and the tournament settings
\* were configured (small numbers stand for channel and message ids) and the
\* match_2 button was pressed
TournamentSnapshot ==
    save_state([BotState EXCEPT !.key_channel_id = 5,
                                !.keyhost_channel_id = TRUE,
                                !.commentary_channel_id = 2,
                                !.ops_panel_channel_id = 3,
                                !.ops_panel_message_id = 4,
                                !.mode = "tournament",
                                !.match1_start = 1340,
                                !.match_no = 2])

\* module start-up after STATE = load_state() (lines 637-640): a missing key
\* channel becomes the fixed one, and the state is saved
with_fixed_key_channel(S) ==
    IF S.key_channel_id = None
    THEN [S EXCEPT !.key_channel_id = KEY_CHANNEL_FIXED_ID]
    ELSE S

\* the state after construction from snapshot, the clock at one of starts and
\* stopping span minutes later
InitAt(starts, span, snapshot, panel_starts) ==
    /\ State = with_fixed_key_channel(load_state(snapshot))
    /\ disk = save_state(State)
    /\ pending = NoPending
    /\ match2_break_task = None
    /\ views = {}
    /\ button = FALSE
    /\ now \in starts
    /\ deadline = now + span
    /\ checkin_up = TRUE
    /\ boots = 0
    /\ ev = NoEvent
    /\ panel_state \in panel_starts
    /\ escalation_log = <<>>
    /\ reset_since_schedule = FALSE
    /\ running = TRUE
    /\ suspended = None
    /\ posted_in_round = 0
    /\ delivered = [k \in 1..4 |-> 0]
    /\ guild = ChannelNames

\* ------------------------------------------------------------ pause window
\* lead = 7 if int(match_no or 1) == 1 else 4
lead(match_no) == IF match_no = 1 THEN LeadFirst ELSE LeadLater

\* apply_map_remaining_minutes(now, remaining_min), save_state included
apply_map_remaining_minutes(S, t, remaining_min) ==
    LET rem == IF remaining_min < 0 THEN 0 ELSE remaining_min
        switch_dt == t + rem
        pause_from == switch_dt - lead(S.match_no)
        pause_to == switch_dt
    IN  [S EXCEPT !.map_remaining_min = rem,
                  !.map_switch_time = hhmm(switch_dt),
                  !.key_pause_from = hhmm(pause_from),
                  !.key_pause_to = hhmm(pause_to)]

\* recompute_pause_window_from_state(now): the stored switch time is preferred,
\* but reading it goes through parse_hhmm; on its failure the switch time is
\* taken again from now + map_remaining_min
recompute_pause_window_from_state(S, t) ==
    LET from_stored == S.map_switch_time # None /\ ~parse_hhmm_raises
        fallback == ~from_stored /\ S.map_remaining_min # None
        switch_dt == IF from_stored THEN parse_hhmm_dt(S.map_switch_time, t)
                     ELSE t + S.map_remaining_min
        S1 == IF fallback THEN [S EXCEPT !.map_switch_time = hhmm(switch_dt)] ELSE S
    IN  IF ~from_stored /\ ~fallback THEN S
        ELSE [S1 EXCEPT !.key_pause_from = hhmm(switch_dt - lead(S.match_no)),
                        !.key_pause_to = hhmm(switch_dt)]

\* ------------------------------------------------------------ distribution
\* reasons for which str(reason).startswith("manual") or "replay_done" in reason
ManualReasons == {"manual_panel", "replay_done_trigger"}

\* what the messaging calls of one keyhost_notify_once did:
\*   no_channel   the keyhost channel could not be fetched
\*   key_failed   sending the key message raised
\*   text_failed  the key message was sent, the fallback text message raised
\*   sent         every send succeeded
Outcomes == {"no_channel", "key_failed", "text_failed", "sent"}

\* used_set(): a copy of STATE.used_keys
used_set(S) == S.used_keys

\* persist_used(used); nothing calls it
persist_used(S, used) == [S EXCEPT !.used_keys = used]

\* generate_key(used): a key not in used when the draws find one; the key
\* is added to the copy the caller passed and to nothing else.  When every
\* key is in used the 20000 draws all collide and the return after the loop
\* hands back a drawn key unchecked.
generate_key(used) == IF Keys \ used = {} THEN Keys ELSE Keys \ used

\* the planned departure written by keyhost_notify_once (lines 3339-3360)
planned_for(S, t, reason) ==
    LET p0 == IF reason \in ManualReasons THEN hhmm(t + PlannedOffset)
              ELSE S.planned_departure
        \* planned in ("", "00:00")
        p1 == IF p0 = None \/ p0 = 0 THEN hhmm(t + PlannedOffset) ELSE p0
        deferred == /\ S.match_no = 1
                    /\ p1 = load_entry_tournament_start_time
                    /\ S.key_pause_from # None
                    /\ S.key_pause_to # None
                    /\ ~parse_hhmm_raises
                    /\ S.key_pause_from <= p1
                    /\ p1 < S.key_pause_to
    IN  IF deferred THEN S.key_pause_to ELSE p1

\* keyhost_notify_once(guild, reason): the new STATE, the new snapshot and
\* what was sent.  k is the key generate_key returned, out the outcome of the
\* messaging calls.
keyhost_notify_once(S, D, t, reason, out, k) ==
    IF ~S.keyhost_channel_id \/ out = "no_channel"
    THEN [S |-> S, D |-> D, ok |-> FALSE, posted |-> FALSE, caster |-> FALSE]
    ELSE LET S1 == [S EXCEPT !.phase = "PREP", !.custom_key = None,
                             !.departure_time = None]
             D1 == save_state(S1)
             S2 == [S1 EXCEPT !.custom_key = k,
                              !.planned_departure = planned_for(S1, t, reason)]
             ok == out = "sent"
             S3 == IF ok THEN [S2 EXCEPT !.keyhost_notified_once = TRUE] ELSE S2
         IN  [S |-> S3,
              D |-> IF ok THEN save_state(S3) ELSE D1,
              ok |-> ok,
              posted |-> out \in {"text_failed", "sent"},
              caster |-> S2.planned_departure # None]

\* ------------------------------------------------------------ checkin phases
send_checkin_phase1_unguarded(S, today, force, sent_any) ==
    [S |-> IF sent_any THEN [S EXCEPT !.checkin_phase1_sent_date = today] ELSE S,
     delivered |-> sent_any]

\* send_checkin_phase1 with the force argument ignored
send_checkin_phase1_unforced(S, today, force, sent_any) ==
    IF S.checkin_phase1_sent_date = today
    THEN [S |-> S, delivered |-> FALSE]
    ELSE [S |-> IF sent_any THEN [S EXCEPT !.checkin_phase1_sent_date = today] ELSE S,
          delivered |-> sent_any]

\* send_checkin_phase1(guild, force): sent_any says whether one send succeeded
send_checkin_phase1(S, today, force, sent_any) ==
    IF ~force /\ S.checkin_phase1_sent_date = today
    THEN [S |-> S, delivered |-> FALSE]
    ELSE [S |-> IF sent_any THEN [S EXCEPT !.checkin_phase1_sent_date = today] ELSE S,
          delivered |-> sent_any]

send_checkin_phase2(S, today, force, sent_any) ==
    IF ~force /\ S.checkin_phase2_sent_date = today
    THEN [S |-> S, delivered |-> FALSE]
    ELSE [S |-> IF sent_any THEN [S EXCEPT !.checkin_phase2_sent_date = today] ELSE S,
          delivered |-> sent_any]

\* the status snapshot of automation_loop (lines 3696-3703): date set whatever
\* update_checkin_status_channel achieved
checkin_phase3(S, today) ==
    IF S.checkin_phase3_sent_date # today
    THEN [S |-> [S EXCEPT !.checkin_phase3_sent_date = today], delivered |-> TRUE]
    ELSE [S |-> S, delivered |-> FALSE]

\* send_checkin_phase4_golive: send_to_key_channel swallows a failed send, so
\* the date is set whether or not the message went out
send_checkin_phase4_golive(S, today, force, sent) ==
    IF ~force /\ S.checkin_phase4_sent_date = today
    THEN [S |-> S, delivered |-> FALSE]
    ELSE [S |-> [S EXCEPT !.checkin_phase4_sent_date = today], delivered |-> sent]

\* ------------------------------------------------------------ checkin lists
\* re.match(r"^(\d{3})", name): the first three characters when all three are
\* digits, and <<>> for no match
leading_number(name) == IF Len(name) >= 3 THEN SubSeq(name, 1, 3) ELSE <<>>

\* _extract_roster_numbers(guild)
_extract_roster_numbers(G) ==
    {leading_number(name) : name \in {c \in G : leading_number(c) # <<>>}}

\* str(num).zfill(3)
RECURSIVE zfill3(_)
zfill3(num) == IF Len(num) >= 3 THEN num ELSE zfill3(<<0>> \o num)

\* CheckinView._mark_only(num, kind), without its save_state
_mark_only(S, num, kind) ==
    LET n == zfill3(num)
        S1 == [S EXCEPT !.checked_in_numbers = @ \ {n},
                        !.declined_numbers = @ \ {n},
                        !.forfeit_numbers = @ \ {n}]
    IN  CASE kind = "checkin" -> [S1 EXCEPT !.checked_in_numbers = @ \cup {n}]
          [] kind = "decline" -> [S1 EXCEPT !.declined_numbers = @ \cup {n}]
          [] kind = "forfeit" -> [S1 EXCEPT !.forfeit_numbers = @ \cup {n}]
          [] OTHER -> S1

\* a press of a CheckinView button in channel ch
checkin_button(kind) ==
    /\ running
    /\ \E ch \in guild :
        \E num \in {leading_number(ch)} :
            /\ State' = IF num = <<>> THEN State ELSE _mark_only(State, num, kind)
            /\ disk' = IF num = <<>> THEN disk ELSE save_state(State')
            /\ ev' = [Event(kind) EXCEPT !.ok = (num # <<>>)]
            /\ UNCHANGED <<panel_state, guild, suspended, running, reset_since_schedule,
                           escalation_log, pending, match2_break_task, views,
                           button, now, deadline, checkin_up, boots,
                           posted_in_round, delivered>>

btn_checkin == checkin_button("checkin")

btn_decline == checkin_button("decline")

btn_forfeit == checkin_button("forfeit")

\* mark_checkin(number)
mark_checkin ==
    /\ running
    /\ \E n \in NumberInputs :
        /\ State' = IF Len(n) = 3 /\ n \notin State.checked_in_numbers
                    THEN [State EXCEPT !.checked_in_numbers = @ \cup {n}]
                    ELSE State
        /\ disk' = IF State' # State THEN save_state(State') ELSE disk
        /\ ev' = [Event("mark_checkin") EXCEPT !.ok = (Len(n) = 3)]
        /\ UNCHANGED <<panel_state, guild, suspended, running, reset_since_schedule,
                       escalation_log, pending, match2_break_task, views,
                       button, now, deadline, checkin_up, boots,
                       posted_in_round, delivered>>

\* a channel of the guild is created or deleted
guild_change ==
    /\ running
    /\ \E c \in ChannelNames :
        guild' = IF c \in guild THEN guild \ {c} ELSE guild \cup {c}
    /\ ev' = NoEvent
    /\ UNCHANGED <<panel_state, suspended, running, reset_since_schedule,
                   escalation_log, State, disk, pending, match2_break_task,
                   views, button, now, deadline, checkin_up, boots,
                   posted_in_round, delivered>>

\* ------------------------------------------------------------ bookkeeping
Min(a, b) == IF a <= b THEN a ELSE b

\* calls of keyhost_notify_once that returned True since match_no last
\* changed, capped at 2
CountPosted(n, old_no, new_no, posted) ==
    Min(2, (IF old_no = new_no THEN n ELSE 0) + (IF posted THEN 1 ELSE 0))

Bump(d, k, b) == IF b THEN [d EXCEPT ![k] = Min(2, @ + 1)] ELSE d

NoCall(S, D) == [S |-> S, D |-> D, ok |-> FALSE, posted |-> FALSE, caster |-> FALSE]

\* ------------------------------------------------------------ the clock
\* a minute passes; the sleep of a scheduled _deliver ends at its notify time,
\* so the clock does not pass that minute with the task still waiting
AdvanceClock ==
    /\ now < deadline
    /\ match2_break_task = None \/ now < match2_break_task
    /\ now' = now + 1
    /\ delivered' = IF date_of(now + 1) # date_of(now) THEN [k \in 1..4 |-> 0]
                    ELSE delivered
    /\ ev' = NoEvent
    /\ UNCHANGED <<panel_state, guild, suspended, running,
                   reset_since_schedule, escalation_log, State, disk, pending,
                   match2_break_task, views, button, deadline, checkin_up,
                   boots, posted_in_round>>

\* ------------------------------------------------------------ operator panel
\* OpsPanelView.mode_auto_btn
mode_auto_btn ==
    /\ running
    /\ State' = [State EXCEPT !.auto_enabled = TRUE, !.emergency_stop = FALSE]
    /\ disk' = save_state(State')
    /\ ev' = NoEvent
    /\ UNCHANGED <<panel_state, guild, suspended, running,
                   reset_since_schedule, escalation_log, pending,
                   match2_break_task, views, button, now, deadline,
                   checkin_up, boots, posted_in_round, delivered>>

\* OpsPanelView.mode_manual_btn
mode_manual_btn ==
    /\ running
    /\ State' = [State EXCEPT !.auto_enabled = FALSE]
    /\ disk' = save_state(State')
    /\ ev' = NoEvent
    /\ UNCHANGED <<panel_state, guild, suspended, running,
                   reset_since_schedule, escalation_log, pending,
                   match2_break_task, views, button, now, deadline,
                   checkin_up, boots, posted_in_round, delivered>>

\* OpsPanelView.emergency_stop
emergency_stop ==
    /\ running
    /\ State' = [State EXCEPT !.emergency_stop = TRUE, !.auto_enabled = FALSE]
    /\ disk' = save_state(State')
    /\ ev' = NoEvent
    /\ UNCHANGED <<panel_state, guild, suspended, running,
                   reset_since_schedule, escalation_log, pending,
                   match2_break_task, views, button, now, deadline,
                   checkin_up, boots, posted_in_round, delivered>>

\* OpsPanelView.match_1 .. match_4: the button of match n
match_button(n) ==
    /\ running
    /\ State' = recompute_pause_window_from_state(
                    [State EXCEPT !.match_no = n], now)
    /\ disk' = save_state(State')
    /\ posted_in_round' = CountPosted(posted_in_round, State.match_no, n, FALSE)
    /\ ev' = NoEvent
    /\ UNCHANGED <<panel_state, guild, suspended, running,
                   reset_since_schedule, escalation_log, pending,
                   match2_break_task, views, button, now, deadline,
                   checkin_up, boots, delivered>>

match_n == \E n \in Matches : match_button(n)

\* OpsPanelView.match_3
match_3 == match_button(3)

\* MapRemainingModal.on_submit with a value int() accepts
map_remaining_with(choices) ==
    /\ running
    /\ \E m \in choices :
        /\ State' = apply_map_remaining_minutes(State, now, m)
        /\ disk' = save_state(State')
        /\ ev' = Event("map_remaining")
        /\ UNCHANGED <<panel_state, guild, suspended, running,
                       reset_since_schedule, escalation_log, pending,
                       match2_break_task, views, button, now, deadline,
                       checkin_up, boots, posted_in_round, delivered>>

map_remaining == map_remaining_with(RemainingChoices)

map_remaining_short == map_remaining_with(ShortRemaining)

\* parse_hhmm_str(s): "HH:MM" when s is two digits, a colon and two digits
\* with HH in 0..23 and MM in 0..59, otherwise None
parse_hhmm_str(s) ==
    IF s[1] \in 0..23 /\ s[2] \in 0..59 THEN s[1] * 60 + s[2] ELSE None

\* set_tournament(mode, match_count, match1_start), lines 3131-3161: the
\* arguments are checked and applied one after the other, and the state is
\* saved only when none was refused.  (The line registering the command,
\* line 3129, is a comment in this version of the file.)
set_tournament ==
    /\ running
    /\ \E mode \in ModeInputs, match_count \in CountInputs,
          match1_start \in StartInputs :
        LET mode_bad == mode # "" /\ mode \notin {"reload", "tournament"}
            S1 == IF mode # "" /\ ~mode_bad THEN [State EXCEPT !.mode = mode]
                  ELSE State
            count_bad == match_count # None
                         /\ (match_count < MinMatchCount \/ match_count > MaxMatchCount)
            S2 == IF match_count # None /\ ~count_bad
                  THEN [S1 EXCEPT !.match_count = match_count,
                                  !.match_no = Min(@, match_count)]
                  ELSE S1
            v == IF match1_start = <<>> THEN None ELSE parse_hhmm_str(match1_start)
            start_bad == match1_start # <<>> /\ v = None
            S3 == IF match1_start # <<>> /\ ~start_bad
                  THEN [S2 EXCEPT !.match1_start = v]
                  ELSE S2
            refused == mode_bad \/ count_bad \/ start_bad
        IN  /\ State' = IF mode_bad THEN State
                        ELSE IF count_bad THEN S1
                        ELSE IF start_bad THEN S2
                        ELSE S3
            /\ disk' = IF refused THEN disk ELSE save_state(State')
            /\ posted_in_round' = CountPosted(posted_in_round, State.match_no,
                                              State'.match_no, FALSE)
            /\ ev' = [Event("set_tournament") EXCEPT !.ok = ~refused]
            /\ UNCHANGED <<panel_state, guild, suspended, running,
                           reset_since_schedule, escalation_log, pending,
                           match2_break_task, views, button, now, deadline,
                           checkin_up, boots, delivered>>

\* set_keyhost_target
set_keyhost_target ==
    /\ running
    /\ State' = [State EXCEPT !.keyhost_channel_id = TRUE]
    /\ disk' = save_state(State')
    /\ ev' = NoEvent
    /\ UNCHANGED <<panel_state, guild, suspended, running,
                   reset_since_schedule, escalation_log, pending,
                   match2_break_task, views, button, now, deadline,
                   checkin_up, boots, posted_in_round, delivered>>

\* OpsPanelView.key_drop: refused while automatic mode is on and not stopped
key_drop ==
    /\ running
    /\ \E out \in Outcomes, k \in generate_key(used_set(State)) :
        LET refused == State.auto_enabled /\ ~State.emergency_stop
        IN  \E r \in {IF refused THEN NoCall(State, disk)
                      ELSE keyhost_notify_once(State, disk, now, "manual_panel",
                                               out, k)} :
            /\ State' = r.S
            /\ disk' = r.D
            /\ button' = (button \/ r.posted)
            /\ posted_in_round' = CountPosted(posted_in_round, State.match_no,
                                              r.S.match_no, r.ok)
            /\ ev' = [op |-> "key_drop", reason |-> "manual_panel",
                      called |-> ~refused, posted |-> r.posted, ok |-> r.ok,
                      caster |-> r.caster, target |-> None,
                      announced |-> FALSE, forced |-> {}]
            /\ UNCHANGED <<panel_state, guild, suspended, running,
                           reset_since_schedule, escalation_log, pending,
                           match2_break_task, views, now, deadline,
                           checkin_up, boots, delivered>>

\* OpsPanelView.key_drop up to the first await of keyhost_notify_once that
\* follows its writes to STATE (try_render_png, line 3365): the channel was
\* found, phase, custom_key and planned_departure are written, k is a local
key_drop_begin ==
    /\ running
    /\ suspended = None
    /\ ~(State.auto_enabled /\ ~State.emergency_stop)
    /\ State.keyhost_channel_id
    /\ \E k \in generate_key(used_set(State)) :
        LET S1 == [State EXCEPT !.phase = "PREP", !.custom_key = None,
                                !.departure_time = None]
        IN  /\ State' = [S1 EXCEPT
                            !.custom_key = k,
                            !.planned_departure = planned_for(S1, now, "manual_panel")]
            /\ disk' = save_state(S1)
            /\ suspended' = k
            /\ ev' = Event("key_drop_begin")
            /\ UNCHANGED <<panel_state, guild, reset_since_schedule,
                           escalation_log, running, pending,
                           match2_break_task, views, button, now, deadline,
                           checkin_up, boots, posted_in_round, delivered>>

\* the rest of that call (lines 3376-3424): the sends post the local k, and
\* STATE is read and written as other handlers have left it meanwhile
key_drop_resume ==
    /\ running
    /\ suspended # None
    /\ \E out \in Outcomes \ {"no_channel"} :
        LET ok == out = "sent"
            posted == out \in {"text_failed", "sent"}
        IN  /\ State' = IF ok THEN [State EXCEPT !.keyhost_notified_once = TRUE]
                        ELSE State
            /\ disk' = IF ok THEN save_state(State') ELSE disk
            /\ suspended' = None
            /\ button' = (button \/ posted)
            /\ posted_in_round' = CountPosted(posted_in_round, State.match_no,
                                              State.match_no, ok)
            /\ ev' = [op |-> "key_drop_resume", reason |-> "manual_panel",
                      called |-> TRUE, posted |-> posted, ok |-> ok,
                      caster |-> State.planned_departure # None, target |-> None,
                      announced |-> FALSE, forced |-> {}]
            /\ UNCHANGED <<panel_state, guild, reset_since_schedule,
                           escalation_log, running, pending,
                           match2_break_task, views, now, deadline,
                           checkin_up, boots, delivered>>

\* the fields reset_to_before_match1 keeps (lines 575-584)
KeptFields ==
    {"key_channel_id", "keyhost_channel_id", "commentary_channel_id",
     "ops_panel_channel_id", "ops_panel_message_id", "mode", "match_count",
     "match1_start"}

reset_to_initial_state(S) ==
    [BotState EXCEPT !.planned_departure = load_entry_tournament_start_time]

\* reset_to_before_match1, save_state included: the kept fields are read
\* first, the round fields are reset, the kept fields are written back
reset_to_before_match1(S) ==
    LET keep == [f \in KeptFields |-> S[f]]
        core == [S EXCEPT !.match_no = 1,
                          !.phase = "INIT",
                          !.custom_key = None,
                          !.planned_departure = load_entry_tournament_start_time,
                          !.departure_time = None,
                          !.map_switch_time = None,
                          !.map_remaining_min = None,
                          !.key_pause_from = None,
                          !.key_pause_to = None,
                          !.auto_enabled = FALSE,
                          !.checkin_closed = FALSE,
                          !.keyhost_notified_once = FALSE,
                          !.emergency_stop = FALSE]
    IN  [f \in DOMAIN core |-> IF f \in KeptFields THEN keep[f] ELSE core[f]]

\* OpsPanelView.full_reset
full_reset ==
    /\ running
    /\ State' = reset_to_before_match1(State)
    /\ disk' = save_state(State')
    /\ posted_in_round' = 0
    /\ reset_since_schedule' = (match2_break_task # None)
    /\ ev' = Event("full_reset")
    /\ UNCHANGED <<panel_state, guild, suspended, running, escalation_log,
                   pending, match2_break_task, views, button, now, deadline,
                   checkin_up, boots, delivered>>

\* the end-of-match declaration shared by ReplayRequestNumbersModal.on_submit
\* (lines 2065-2075) and test_replay_request (lines 3916-3926)
declare_match_end(S) ==
    [S EXCEPT !.phase = "WAIT_REPLAY_DONE", !.keyhost_notified_once = FALSE]

pending_after_declare(S) ==
    [ pending_next_match_no |-> Min(S.match_no + 1, S.match_count),
      pending_keyhost_send |-> FALSE,
      pending_keyhost_send_at |-> None ]

\* the rank contacts stored by ReplayRequestNumbersModal.on_submit (lines
\* 2038-2042); ranks[i] is the number typed for rank i, None when left blank
store_rank_contacts(S, m, ranks) ==
    [S EXCEPT !.replay_rank_match_no = m,
              !.replay_rank1 = ranks[1],
              !.replay_rank2 = ranks[2],
              !.replay_rank3 = ranks[3],
              !.replay_rank_stage = 0]

\* ReplayRequestNumbersModal.on_submit: with no valid number it returns after
\* storing the rank contacts; sent says whether one request message went out
replay_request_with(rank_choices) ==
    /\ running
    /\ \E has_target \in BOOLEAN, sent \in BOOLEAN, ranks \in rank_choices :
        /\ State' = IF has_target
                     THEN declare_match_end(
                              store_rank_contacts(State, State.match_no, ranks))
                     ELSE store_rank_contacts(State, State.match_no, ranks)
        /\ disk' = save_state(State')
        /\ pending' = IF has_target THEN pending_after_declare(State) ELSE pending
        /\ views' = IF has_target /\ sent THEN views \cup {State.match_no} ELSE views
        /\ posted_in_round' = IF has_target THEN 0 ELSE posted_in_round
        /\ escalation_log' = <<>>
        /\ ev' = NoEvent
        /\ UNCHANGED <<panel_state, guild, suspended, running,
                       reset_since_schedule, match2_break_task, button, now,
                       deadline, checkin_up, boots, delivered>>

\* the modal submitted with the three rank fields left blank
replay_request == replay_request_with(BlankRanks)

\* the modal submitted with rank contacts filled in
replay_request_ranked == replay_request_with(RankChoices)

\* test_replay_request
test_replay_request ==
    /\ running
    /\ State' = declare_match_end(State)
    /\ disk' = save_state(State')
    /\ pending' = pending_after_declare(State)
    /\ views' = views \cup {State.match_no}
    /\ posted_in_round' = 0
    /\ ev' = NoEvent
    /\ UNCHANGED <<panel_state, guild, suspended, running,
                   reset_since_schedule, escalation_log, match2_break_task,
                   button, now, deadline, checkin_up, boots, delivered>>

\* ------------------------------------------------------------ participants
\* schedule_match3_break_after_match2_replay: the state it writes
schedule_match3_break_after_match2_replay(S, t) ==
    [S EXCEPT !.match_no = 3,
              !.planned_departure = hhmm(t + BreakMinutes),
              !.departure_time = None,
              !.phase = "PREP"]

\* ReplaySubmitView.done on a request message of match m
done ==
    /\ running
    /\ \E m \in views, out \in Outcomes, k \in generate_key(used_set(State)) :
        IF m = 2
        THEN /\ State' = schedule_match3_break_after_match2_replay(State, now)
             /\ disk' = save_state(State')
             /\ pending' = NoPending
             /\ match2_break_task' = now + BreakMinutes
             /\ reset_since_schedule' = FALSE
             /\ posted_in_round' = CountPosted(posted_in_round, State.match_no,
                                               3, FALSE)
             /\ ev' = NoEvent
             /\ UNCHANGED <<panel_state, guild, suspended, running,
                            escalation_log, views, button, now, deadline,
                            checkin_up, boots, delivered>>
        ELSE LET nxt == pending.pending_next_match_no
                 paused == is_in_pause_window(State, now)
                 S1 == [State EXCEPT !.match_no = nxt]
             IN  \E r \in {IF nxt = None \/ paused THEN NoCall(State, disk)
                           ELSE keyhost_notify_once(S1, save_state(S1), now,
                                                    "replay_done_trigger", out, k)} :
                 /\ State' = r.S
                 /\ disk' = IF nxt # None /\ paused THEN save_state(State) ELSE r.D
                 /\ pending' = IF nxt # None /\ paused
                               THEN [pending EXCEPT
                                        !.pending_keyhost_send = TRUE,
                                        !.pending_keyhost_send_at = State.key_pause_to]
                               ELSE pending
                 /\ button' = (button \/ r.posted)
                 /\ posted_in_round' = CountPosted(posted_in_round, State.match_no,
                                                   r.S.match_no, r.ok)
                 /\ ev' = [op |-> "done", reason |-> "replay_done_trigger",
                           called |-> (nxt # None /\ ~paused), posted |-> r.posted,
                           ok |-> r.ok, caster |-> r.caster, target |-> None,
                           announced |-> (nxt # None /\ paused
                                         /\ State.key_pause_to # None),
                           forced |-> {}]
                 /\ UNCHANGED <<panel_state, guild, suspended, running,
                                reset_since_schedule, escalation_log,
                                match2_break_task, views, now, deadline,
                                checkin_up, boots, delivered>>

\* the rank replay_forgot contacts at a stage (lines 2472-2481): 0 is "1位",
\* 1 is "2位", 2 is "3位", beyond that nobody
target_number(S, stage) ==
    IF stage <= 0 THEN S.replay_rank1
    ELSE IF stage = 1 THEN S.replay_rank2
    ELSE IF stage = 2 THEN S.replay_rank3
    ELSE None

\* the stage after one press (lines 2494-2495): it advances only when the
\* message to the target was sent
stage_after_any_report(stage, notified) == Min(stage + 1, 3)

stage_after(stage, notified) == IF notified THEN Min(stage + 1, 3) ELSE stage

\* escalation_log with one more entry, kept to MaxReports entries
Logged(log, entry) == IF Len(log) < MaxReports THEN Append(log, entry) ELSE log

\* ReplaySubmitView.replay_forgot on a request message of match m; reached
\* says whether the target's channel was found and the send succeeded
replay_forgot ==
    /\ running
    /\ \E m \in views, reached \in BOOLEAN :
        LET differs == State.replay_rank_match_no # m
            S0 == IF differs
                  THEN [State EXCEPT !.replay_rank_match_no = m,
                                     !.replay_rank_stage = 0]
                  ELSE State
            stage == S0.replay_rank_stage
            target == target_number(S0, stage)
            notified == target # None /\ reached
        IN  /\ State' = [S0 EXCEPT
                            !.replay_rank_stage = stage_after(stage, notified)]
            /\ disk' = IF differs \/ notified THEN save_state(State') ELSE disk
            /\ escalation_log' =
                  Logged(IF differs THEN <<>> ELSE escalation_log,
                         IF notified THEN target
                         ELSE IF target = None THEN None ELSE Failed)
            /\ ev' = [Event("replay_forgot") EXCEPT
                          !.called = (target # None),
                          !.ok = notified,
                          !.target = IF notified THEN target ELSE None]
            /\ UNCHANGED <<panel_state, guild, suspended, running,
                           reset_since_schedule, pending, match2_break_task,
                           views, button, now, deadline, checkin_up, boots,
                           posted_in_round, delivered>>

\* the departure time queue_ready stores: now + 2, or the planned time when
\* that is later (the comparison goes through parse_hhmm)
departure_for(S, t) ==
    LET dep_candidate == t + ConfirmOffset
        planned_dt == parse_hhmm_dt(S.planned_departure, dep_candidate)
    IN  IF S.planned_departure # None /\ ~parse_hhmm_raises
           /\ planned_dt > dep_candidate
        THEN hhmm(planned_dt)
        ELSE hhmm(dep_candidate)

\* KeyhostView.queue_ready; removed says whether the button was taken off the
\* pressed message
queue_ready ==
    /\ running
    /\ button
    /\ \E removed \in BOOLEAN :
        LET refused == State.emergency_stop \/ State.custom_key = None
        IN  /\ State' = IF refused THEN State
                        ELSE [State EXCEPT !.departure_time = departure_for(State, now),
                                           !.phase = "DEPART_CONFIRMED"]
            /\ disk' = IF refused THEN disk ELSE save_state(State')
            /\ button' = IF refused THEN button ELSE ~removed
            /\ ev' = [Event("queue_ready") EXCEPT !.ok = ~refused]
            /\ UNCHANGED <<panel_state, guild, suspended, running,
                           reset_since_schedule, escalation_log, pending,
                           match2_break_task, views, now, deadline,
                           checkin_up, boots, posted_in_round, delivered>>

\* _deliver, the task scheduled by schedule_match3_break_after_match2_replay,
\* once its sleep is over
deliver ==
    /\ running
    /\ match2_break_task # None
    /\ now >= match2_break_task
    /\ \E out \in Outcomes, k \in generate_key(used_set(State)) :
        LET skipped == State.emergency_stop \/ State.match_no # 3
        IN  \E r \in {IF skipped THEN NoCall(State, disk)
                      ELSE keyhost_notify_once(State, disk, now, "auto_break_m3",
                                               out, k)} :
            /\ State' = r.S
            /\ disk' = r.D
            /\ match2_break_task' = None
            /\ button' = (button \/ r.posted)
            /\ posted_in_round' = CountPosted(posted_in_round, State.match_no,
                                              r.S.match_no, r.ok)
            /\ ev' = [op |-> "deliver", reason |-> "auto_break_m3",
                      called |-> ~skipped, posted |-> r.posted, ok |-> r.ok,
                      caster |-> r.caster, target |-> None,
                      announced |-> FALSE, forced |-> {}]
            /\ UNCHANGED <<panel_state, guild, suspended, running,
                           reset_since_schedule, escalation_log, pending,
                           views, now, deadline, checkin_up, boots,
                           delivered>>

\* ------------------------------------------------------------ automation loop
\* the checkin part without the time thresholds
checkin_part_unscheduled(S, D, t, a1, a2, a4) ==
    LET today == date_of(t)
        r1 == send_checkin_phase1(S, today, FALSE, a1)
        r2 == send_checkin_phase2(r1.S, today, FALSE, a2)
        r3 == checkin_phase3(r2.S, today)
        r4 == send_checkin_phase4_golive(r3.S, today, FALSE, a4)
    IN  [S |-> r4.S,
         D |-> IF r4.S # S THEN save_state(r4.S) ELSE D,
         d1 |-> r1.delivered, d2 |-> r2.delivered,
         d3 |-> r3.delivered, d4 |-> r4.delivered]

\* the checkin part of one iteration (lines 3674-3706): a1, a2, a4 say whether
\* a send of phase 1, 2, 4 succeeded
checkin_part(S, D, t, a1, a2, a4) ==
    LET t0 == get_tournament_start_dt
        today == date_of(t)
        r1 == IF t >= t0 - 30 THEN send_checkin_phase1(S, today, FALSE, a1)
              ELSE [S |-> S, delivered |-> FALSE]
        r2 == IF t >= t0 - 10 THEN send_checkin_phase2(r1.S, today, FALSE, a2)
              ELSE [S |-> r1.S, delivered |-> FALSE]
        r3 == IF t >= t0 - 5 THEN checkin_phase3(r2.S, today)
              ELSE [S |-> r2.S, delivered |-> FALSE]
        r4 == IF t >= t0 - 2 THEN send_checkin_phase4_golive(r3.S, today, FALSE, a4)
              ELSE [S |-> r3.S, delivered |-> FALSE]
    IN  [S |-> r4.S,
         D |-> IF r4.S # S THEN save_state(r4.S) ELSE D,
         d1 |-> r1.delivered, d2 |-> r2.delivered,
         d3 |-> r3.delivered, d4 |-> r4.delivered]

\* the release of a deferred send (lines 3708-3726)
release_due(P, S, t) ==
    /\ P.pending_keyhost_send
    /\ P.pending_keyhost_send_at # None
    /\ ~parse_hhmm_raises
    /\ t >= parse_hhmm_dt(P.pending_keyhost_send_at, t)
    /\ ~is_in_pause_window(S, t)

\* the first-match trigger (lines 3738-3739)
auto_trigger(S, t) ==
    /\ S.auto_enabled
    /\ S.match_no = 1
    /\ ~S.keyhost_notified_once
    /\ hhmm(t) >= AUTO_KEYHOST_HHMM
    /\ ~(is_in_pause_window(S, t) \/ S.emergency_stop)

CallResults(attempted) == IF attempted THEN Outcomes ELSE {"sent"}

\* the keys generate_key can return in a call that is attempted
CallKeys(attempted) == IF attempted THEN generate_key(used_set(State)) ELSE {None}

\* the checkin part and the release of a deferred send; out and k are the
\* outcome and key of the keyhost_notify_once the release makes
loop_release(S, D, P, t, up, out, k) ==
    LET c == checkin_part(S, D, t, up, up, up)
        rel == release_due(P, c.S, t)
        nxt == P.pending_next_match_no
        S1 == [c.S EXCEPT !.match_no = IF nxt # None THEN nxt ELSE @,
                          !.keyhost_notified_once = FALSE]
    IN  [c |-> c,
         rel |-> rel,
         r |-> IF rel
               THEN keyhost_notify_once(S1, save_state(S1), t, "pause_release", out, k)
               ELSE NoCall(c.S, c.D)]

\* the part of an iteration that runs on the event day only: the close of
\* the checkin and the first-match trigger, from the state S and snapshot D
\* the earlier parts left
loop_event_day(S, D, t, out, k) ==
    LET closing == hhmm(t) >= CHECKIN_CLOSE_HHMM /\ ~S.checkin_closed
        S2 == IF closing
              THEN [S EXCEPT !.checkin_closed = TRUE, !.auto_enabled = TRUE]
              ELSE S
        D2 == IF closing THEN save_state(S2) ELSE D
        fire == auto_trigger(S2, t)
    IN  [fire |-> fire,
         r |-> IF fire THEN keyhost_notify_once(S2, D2, t, "auto_2200", out, k)
               ELSE NoCall(S2, D2)]

\* one iteration of the while loop of automation_loop
automation_loop ==
    /\ running
    /\ \E out1 \in CallResults(release_due(pending, State, now)),
          out2 \in CallResults(is_event_day(now) /\ hhmm(now) >= AUTO_KEYHOST_HHMM),
          k1 \in CallKeys(release_due(pending, State, now)),
          k2 \in CallKeys(is_event_day(now) /\ hhmm(now) >= AUTO_KEYHOST_HHMM) :
         \E a \in {loop_release(State, disk, pending, now, checkin_up, out1, k1)} :
           \E b \in {IF is_event_day(now)
                     THEN loop_event_day(a.r.S, a.r.D, now, out2, k2)
                     ELSE [fire |-> FALSE, r |-> NoCall(a.r.S, a.r.D)]} :
               /\ State' = b.r.S
               /\ disk' = b.r.D
               /\ pending' = IF a.rel THEN NoPending ELSE pending
               /\ button' = (button \/ a.r.posted \/ b.r.posted)
               /\ posted_in_round' =
                     CountPosted(CountPosted(posted_in_round, State.match_no,
                                             a.r.S.match_no, a.r.ok),
                                 a.r.S.match_no, b.r.S.match_no, b.r.ok)
               /\ delivered' = Bump(Bump(Bump(Bump(delivered, 1, a.c.d1), 2, a.c.d2),
                                         3, a.c.d3), 4, a.c.d4)
               /\ ev' = [op |-> "automation_loop",
                         reason |-> IF b.fire THEN "auto_2200"
                                    ELSE IF a.rel THEN "pause_release" ELSE "",
                         called |-> (a.rel \/ b.fire),
                         posted |-> (a.r.posted \/ b.r.posted),
                         ok |-> (a.r.ok \/ b.r.ok),
                         caster |-> (a.r.caster \/ b.r.caster), target |-> None,
                         announced |-> FALSE, forced |-> {}]
               /\ UNCHANGED <<panel_state, guild, suspended, running,
                              reset_since_schedule, escalation_log,
                              match2_break_task, views, now, deadline,
                              checkin_up, boots>>

\* one iteration in which the save_state of the status snapshot step (line
\* 3702) raises: phases 1 and 2 are done, the date of phase 3 is set in memory
\* only, and the except of the iteration (line 3743) ends it there
automation_loop_save_fails ==
    /\ running
    /\ now >= get_tournament_start_dt - 5
    /\ State.checkin_phase3_sent_date # date_of(now)
    /\ LET t0 == get_tournament_start_dt
           today == date_of(now)
           r1 == IF now >= t0 - 30
                 THEN send_checkin_phase1(State, today, FALSE, checkin_up)
                 ELSE [S |-> State, delivered |-> FALSE]
           r2 == IF now >= t0 - 10
                 THEN send_checkin_phase2(r1.S, today, FALSE, checkin_up)
                 ELSE [S |-> r1.S, delivered |-> FALSE]
       IN  /\ State' = [r2.S EXCEPT !.checkin_phase3_sent_date = today]
           /\ disk' = IF r2.S # State THEN save_state(r2.S) ELSE disk
           /\ delivered' = Bump(Bump(delivered, 1, r1.delivered), 2, r2.delivered)
           /\ ev' = [Event("automation_loop") EXCEPT !.reason = "save_failed"]
           /\ UNCHANGED <<panel_state, guild, suspended, running,
                          reset_since_schedule, escalation_log, pending,
                          match2_break_task, views, button, now, deadline,
                          checkin_up, boots, posted_in_round>>

\* ------------------------------------------------------------ checkin commands
\* checkin_tick: the phases that are due, unforced
checkin_tick ==
    /\ running
    /\  LET a1 == checkin_up
            a2 == checkin_up
            a4 == checkin_up
            t0 == get_tournament_start_dt
            today == date_of(now)
            r1 == IF now >= t0 - 30 THEN send_checkin_phase1(State, today, FALSE, a1)
                  ELSE [S |-> State, delivered |-> FALSE]
            r2 == IF now >= t0 - 10 THEN send_checkin_phase2(r1.S, today, FALSE, a2)
                  ELSE [S |-> r1.S, delivered |-> FALSE]
            r4 == IF now >= t0 - 2
                  THEN send_checkin_phase4_golive(r2.S, today, FALSE, a4)
                  ELSE [S |-> r2.S, delivered |-> FALSE]
        IN  /\ State' = r4.S
            \* refresh_unoperated_cache(force=True) saves the state
            /\ disk' = save_state(State')
            /\ delivered' = Bump(Bump(Bump(delivered, 1, r1.delivered),
                                      2, r2.delivered), 4, r4.delivered)
            /\ ev' = NoEvent
            /\ UNCHANGED <<panel_state, guild, suspended, running,
                           reset_since_schedule, escalation_log, pending,
                           match2_break_task, views, button, now, deadline,
                           checkin_up, boots, posted_in_round>>

\* checkin_emergency_send(kind): the forced sends
checkin_emergency_send ==
    /\ running
    /\ \E kind \in {"phase1", "phase2", "phase4", "status", "all"} :
        LET a1 == checkin_up
            a2 == checkin_up
            a4 == checkin_up
            today == date_of(now)
            r1 == IF kind \in {"phase1", "all"}
                  THEN send_checkin_phase1(State, today, TRUE, a1)
                  ELSE [S |-> State, delivered |-> FALSE]
            r2 == IF kind \in {"phase2", "all"}
                  THEN send_checkin_phase2(r1.S, today, TRUE, a2)
                  ELSE [S |-> r1.S, delivered |-> FALSE]
            r4 == IF kind \in {"phase4", "all"}
                  THEN send_checkin_phase4_golive(r2.S, today, TRUE, a4)
                  ELSE [S |-> r2.S, delivered |-> FALSE]
        IN  /\ State' = r4.S
            /\ disk' = IF r4.S # State \/ kind \in {"status", "all"}
                       THEN save_state(State') ELSE disk
            \* forced: the phases this call sent; the status text of phase 3
            \* is written by update_checkin_status_channel(force=True)
            /\ ev' = [Event("checkin_emergency_send") EXCEPT
                         !.reason = kind,
                         !.forced = {k \in 1..4 :
                                        \/ k = 1 /\ r1.delivered
                                        \/ k = 2 /\ r2.delivered
                                        \/ k = 3 /\ kind \in {"status", "all"}
                                        \/ k = 4 /\ r4.delivered}]
            /\ UNCHANGED <<panel_state, guild, suspended, running,
                           reset_since_schedule, escalation_log, pending,
                           match2_break_task, views, button, now, deadline,
                           checkin_up, boots, posted_in_round, delivered>>

\* ------------------------------------------------------------ environment
\* the checkin and key channels become unreachable, or reachable again
channel_change ==
    /\ running
    /\ checkin_up' = ~checkin_up
    /\ ev' = NoEvent
    /\ UNCHANGED <<panel_state, guild, suspended, running,
                   reset_since_schedule, escalation_log, State, disk, pending,
                   match2_break_task, views, button, now, deadline, boots,
                   posted_in_round, delivered>>

\* ------------------------------------------------------------ restart
\* the process ends and starts again: STATE = load_state(), the attributes
\* that are no dataclass fields, the scheduled task and the ReplaySubmitView
\* instances (never re-registered by on_ready) are gone; the KeyhostView
\* button is re-registered by bot.add_view.  When json.load raises, load_state
\* raises and the process does not come up.
Restart ==
    /\ boots < MaxBoots
    /\ boots' = boots + 1
    /\ running' = ~json_load_raises(disk)
    /\ State' = IF json_load_raises(disk) THEN State
                ELSE with_fixed_key_channel(load_state(disk))
    /\ pending' = NoPending
    /\ match2_break_task' = None
    /\ reset_since_schedule' = FALSE
    /\ views' = {}
    /\ suspended' = None
    /\ ev' = [Event("restart") EXCEPT !.ok = ~json_load_raises(disk)]
    /\ UNCHANGED <<panel_state, guild, escalation_log, disk, button, now,
                   deadline, checkin_up, posted_in_round, delivered>>

\* the process is killed inside the save_state call of the emergency_stop
\* handler: open(STATE_PATH, "w") has truncated the file, and json.dump has
\* written a part of the new document or all of it
crash_in_save_state ==
    /\ running
    /\ running' = FALSE
    /\ State' = [State EXCEPT !.emergency_stop = TRUE, !.auto_enabled = FALSE]
    /\ disk' \in {Torn, save_state(State')}
    /\ pending' = NoPending
    /\ match2_break_task' = None
    /\ views' = {}
    /\ suspended' = None
    /\ ev' = Event("crash")
    /\ UNCHANGED <<panel_state, guild, reset_since_schedule, escalation_log,
                   button, now, deadline, checkin_up, boots, posted_in_round,
                   delivered>>

\* ------------------------------------------------------------ specifications
\* distribution, confirmation and restart around the first match
Init ==
    InitAt(StartTimes, MaxElapsed, NoSnapshot, PanelStarts)

Next ==
    \/ AdvanceClock
    \/ set_keyhost_target
    \/ mode_auto_btn
    \/ mode_manual_btn
    \/ emergency_stop
    \/ key_drop
    \/ full_reset
    \/ queue_ready
    \/ automation_loop
    \/ Restart

Spec == Init /\ [][Next]_vars

\* the pause window: match selection and the map-remaining modal
InitPause ==
    InitAt(PauseStartTimes, MaxElapsed, NoSnapshot, NoPanelStart)

NextPause ==
    \/ AdvanceClock
    \/ match_n
    \/ map_remaining

SpecPause == InitPause /\ [][NextPause]_vars

\* the rounds after the first: end-of-match declaration and result submission
InitRounds ==
    InitAt(RoundStartTimes, MaxElapsed, ConfiguredSnapshot, NoPanelStart)

NextRounds ==
    \/ AdvanceClock
    \/ emergency_stop
    \/ replay_request
    \/ done
    \/ automation_loop

SpecRounds == InitRounds /\ [][NextRounds]_vars

\* the break before the third match and the delivery scheduled after it
InitBreak ==
    InitAt(BreakStartTimes, MaxBreakElapsed, SecondMatchSnapshot, NoPanelStart)

NextBreak ==
    \/ AdvanceClock
    \/ map_remaining
    \/ test_replay_request
    \/ done
    \/ deliver

SpecBreak == InitBreak /\ [][NextBreak]_vars

\* the break before the third match, with submissions after it
InitResubmit ==
    InitAt(BreakStartTimes, MaxResubmitElapsed, SecondMatchSnapshot, NoPanelStart)

NextResubmit ==
    \/ AdvanceClock
    \/ test_replay_request
    \/ done
    \/ deliver

SpecResubmit == InitResubmit /\ [][NextResubmit]_vars

\* the checkin phases
InitCheckin ==
    InitAt(CheckinStartTimes, MaxElapsed, NoSnapshot, NoPanelStart)

NextCheckin ==
    \/ AdvanceClock
    \/ channel_change
    \/ automation_loop
    \/ checkin_tick
    \/ checkin_emergency_send
    \/ full_reset
    \/ Restart

SpecCheckin == InitCheckin /\ [][NextCheckin]_vars

\* the checkin phases as the loop alone sends them
InitPhases ==
    InitAt(CheckinStartTimes, MaxElapsed, NoSnapshot, NoPanelStart)

NextPhases ==
    \/ AdvanceClock
    \/ channel_change
    \/ automation_loop

SpecPhases == InitPhases /\ [][NextPhases]_vars

\* the checkin buttons of the participants and the correction command
InitRoster ==
    InitAt(CheckinStartTimes, MaxElapsed, NoSnapshot, NoPanelStart)

NextRoster ==
    \/ btn_checkin
    \/ btn_decline
    \/ btn_forfeit
    \/ mark_checkin
    \/ guild_change
    \/ full_reset
    \/ Restart

SpecRoster == InitRoster /\ [][NextRoster]_vars

\* a full reset during the rounds and the break before the third match
InitReset ==
    InitAt(BreakStartTimes, MaxBreakElapsed, TournamentSnapshot, NoPanelStart)

NextReset ==
    \/ AdvanceClock
    \/ match_3
    \/ test_replay_request
    \/ done
    \/ deliver
    \/ full_reset

SpecReset == InitReset /\ [][NextReset]_vars

\* a deferred distribution and a restart of the process
InitDeferred ==
    InitAt(LaterDayStartTimes, MaxElapsed, ConfiguredSnapshot, NoPanelStart)

NextDeferred ==
    \/ AdvanceClock
    \/ map_remaining_short
    \/ test_replay_request
    \/ done
    \/ automation_loop
    \/ Restart

SpecDeferred == InitDeferred /\ [][NextDeferred]_vars

\* the operator panel, a kill of the process inside a save, and a restart
InitCrash ==
    InitAt(RoundStartTimes, MaxElapsed, ConfiguredSnapshot, NoPanelStart)

NextCrash ==
    \/ AdvanceClock
    \/ mode_auto_btn
    \/ mode_manual_btn
    \/ emergency_stop
    \/ map_remaining
    \/ crash_in_save_state
    \/ Restart

SpecCrash == InitCrash /\ [][NextCrash]_vars

\* manual distributions over a stored history of used keys
InitKeys ==
    \E used \in SUBSET Keys :
        InitAt(RoundStartTimes, MaxElapsed, UsedKeysSnapshot(used), NoPanelStart)

NextKeys ==
    \/ AdvanceClock
    \/ emergency_stop
    \/ key_drop
    \/ queue_ready
    \/ Restart

SpecKeys == InitKeys /\ [][NextKeys]_vars

\* a manual distribution suspended at an await while other handlers run
InitInterleave ==
    InitAt(StartTimes, MaxElapsed, ConfiguredSnapshot, NoPanelStart)

NextInterleave ==
    \/ AdvanceClock
    \/ key_drop_begin
    \/ key_drop_resume
    \/ key_drop
    \/ queue_ready
    \/ automation_loop

SpecInterleave == InitInterleave /\ [][NextInterleave]_vars

\* iterations of the loop around 22:00, one of which may fail in a save
InitFault ==
    InitAt(StartTimes, MaxElapsed, ConfiguredSnapshot, NoPanelStart)

NextFault ==
    \/ AdvanceClock
    \/ mode_auto_btn
    \/ mode_manual_btn
    \/ automation_loop
    \/ automation_loop_save_fails

SpecFault == InitFault /\ [][NextFault]_vars

\* the tournament settings and the match buttons
InitSettings ==
    InitAt(RoundStartTimes, MaxElapsed, NoSnapshot, NoPanelStart)

NextSettings ==
    \/ AdvanceClock
    \/ set_tournament
    \/ match_n
    \/ Restart

SpecSettings == InitSettings /\ [][NextSettings]_vars

\* the escalation of missing replays over two matches
InitEscalation ==
    InitAt(RoundStartTimes, MaxElapsed, ConfiguredSnapshot, NoPanelStart)

NextEscalation ==
    \/ replay_request_ranked
    \/ replay_forgot
    \/ match_n
    \/ Restart

SpecEscalation == InitEscalation /\ [][NextEscalation]_vars

\* ------------------------------------------------------------ properties
\* a is not earlier than b, for two HH:MM values less than half a day apart
NotEarlier(a, b) == (a - b) % DayMinutes < DayMinutes \div 2

\* every condition of the first-match trigger except the flag: the event
\* day, 22:00 or later, first match, automatic mode, no emergency stop, no
\* pause window
Armed ==
    /\ is_event_day(now)
    /\ hhmm(now) >= AUTO_KEYHOST_HHMM
    /\ State.match_no = 1
    /\ State.auto_enabled
    /\ ~State.emergency_stop
    /\ ~is_in_pause_window(State, now)

\* C1: in every reachable state departure_time is unset or not earlier than
\* planned_departure.
C1_ConfirmedNotBeforePlanned ==
    \/ State.departure_time = None
    \/ State.planned_departure = None
    \/ NotEarlier(State.departure_time, State.planned_departure)

\* C2: in every reachable state custom_key is set if and only if phase is
\* one of KEYHOST_SENT, DEPART_CONFIRMED, IN_MATCH.
C2_KeyIffPhase ==
    State.custom_key # None
        <=> State.phase \in {"KEYHOST_SENT", "DEPART_CONFIRMED", "IN_MATCH"}

\* C3: between two changes of the round at most one call of
\* keyhost_notify_once posts a credential and returns True, whichever
\* handlers make the calls.
C3_AtMostOneCredentialPerRound == posted_in_round <= 1

\* C4: once keyhost_notified_once = true is in the snapshot and the process
\* has restarted, no iteration of automation_loop posts a credential.
C4_NoResendAfterRestart ==
    [][(ev'.op = "automation_loop" /\ boots >= 1 /\ disk.keyhost_notified_once)
          => ~ev'.posted]_vars

\* C4, the case: after a restart, with the flag in the snapshot and every
\* other condition of the first-match trigger true, an iteration has run and
\* has posted nothing.
C4_Witness ==
    /\ ev.op = "automation_loop"
    /\ boots >= 1
    /\ disk.keyhost_notified_once
    /\ Armed
    /\ ~ev.posted

AutomaticOps == {"automation_loop", "done", "deliver"}

\* C7: after the map-remaining modal at time now, map_switch_time is now +
\* map_remaining_min, key_pause_to is the switch time, key_pause_from is the
\* switch time minus the lead (7 for the first match, 4 otherwise), and the
\* stored key_pause_from is not after the stored key_pause_to.
C7_WindowFromRemaining ==
    ev.op = "map_remaining" =>
        /\ State.map_remaining_min >= 0
        /\ State.map_switch_time = hhmm(now + State.map_remaining_min)
        /\ State.key_pause_to = State.map_switch_time
        /\ State.key_pause_from =
              hhmm(now + State.map_remaining_min
                   - (IF State.match_no = 1 THEN LeadFirst ELSE LeadLater))
        /\ State.key_pause_from <= State.key_pause_to

\* C8: a credential whose planned departure lies inside the pause window
\* [key_pause_from, key_pause_to) is not distributed before key_pause_to.
C8_PlannedInsideWindowIsDeferred ==
    (/\ ev.op \in AutomaticOps
     /\ ev.posted
     /\ State.key_pause_from # None
     /\ State.key_pause_to # None
     /\ State.key_pause_from <= State.planned_departure
     /\ State.planned_departure < State.key_pause_to)
        => hhmm(now) >= State.key_pause_to

\* C9: no handler of AutomaticOps posts a credential at a time inside the
\* pause window.
C9_NoAutomaticPostInWindow ==
    (ev.op \in AutomaticOps /\ ev.posted) => ~is_in_pause_window(State, now)

\* C10: while emergency_stop is true no handler of AutomaticOps calls
\* keyhost_notify_once.
C10_StopSuppressesAutomatic ==
    (ev.op \in AutomaticOps /\ State.emergency_stop) => ~ev.called

C12_ThirdPressReachesRankThree ==
    (/\ State.replay_rank1 = 1
     /\ State.replay_rank2 = None
     /\ State.replay_rank3 = 3
     /\ Len(escalation_log) = 3
     /\ \A i \in 1..3 : escalation_log[i] # Failed)
        => /\ escalation_log = <<1, None, 3>>
           /\ State.replay_rank_stage = 2

\* C13: match_no increases only in a step taken from phase WAIT_REPLAY_DONE,
\* and after such a step custom_key, departure_time and
\* keyhost_notified_once are cleared unless the step itself distributed the
\* credential of the new match.
C13_AdvanceOnlyFromAwaitingResult ==
    [][State'.match_no > State.match_no
          => /\ State.phase = "WAIT_REPLAY_DONE"
             /\ \/ ev'.posted
                \/ /\ State'.custom_key = None
                   /\ State'.departure_time = None
                   /\ ~State'.keyhost_notified_once]_vars

\* C14: a result-submitted step taken in phase WAIT_REPLAY_DONE with match_no
\* equal to match_count ends the tournament: phase becomes ENDED, match_no is
\* unchanged and no credential is posted.
C14_LastMatchEnds ==
    [][(/\ ev'.op = "done"
        /\ State.phase = "WAIT_REPLAY_DONE"
        /\ State.match_no = State.match_count)
          => /\ State'.phase = "ENDED"
             /\ State'.match_no = State.match_no
             /\ ~ev'.posted]_vars

\* the phases listed at BotState.phase, WAIT_REPLAY_DONE being the value the
\* code writes for the phase that awaits the result
Phases ==
    {"INIT", "PREP", "KEYHOST_SENT", "DEPART_CONFIRMED", "IN_MATCH",
     "WAIT_REPLAY_DONE", "ENDED"}

PhaseEdges ==
    {<<"INIT", "PREP">>, <<"PREP", "KEYHOST_SENT">>,
     <<"KEYHOST_SENT", "DEPART_CONFIRMED">>, <<"DEPART_CONFIRMED", "IN_MATCH">>,
     <<"IN_MATCH", "WAIT_REPLAY_DONE">>, <<"WAIT_REPLAY_DONE", "PREP">>,
     <<"WAIT_REPLAY_DONE", "ENDED">>}

\* C15: phase is one of the seven values; a step that changes it follows an
\* edge of PhaseEdges or goes to INIT; a distribution that succeeded leaves
\* phase = KEYHOST_SENT; queue_ready confirms only from KEYHOST_SENT.
C15_PhaseFollowsEdges ==
    [][/\ State'.phase \in Phases
       /\ (State'.phase # State.phase
              => \/ <<State.phase, State'.phase>> \in PhaseEdges
                 \/ State'.phase = "INIT")
       /\ (ev'.posted /\ ev'.ok => State'.phase = "KEYHOST_SENT")
       /\ (ev'.op = "queue_ready" /\ ev'.ok => State.phase = "KEYHOST_SENT")]_vars

\* C16: a full reset puts the match back to 1 and the phase to INIT, clears
\* the key, the confirmed departure, the pause window, the emergency stop,
\* the auto flag and the notified flag, and leaves the configuration
\* (channels, panel location, mode, match count, first-match start) as it was.
C16_ResetKeepsConfiguration ==
    [][ev'.op = "full_reset" =>
          /\ State'.match_no = 1
          /\ State'.phase = "INIT"
          /\ State'.custom_key = None
          /\ State'.departure_time = None
          /\ State'.key_pause_from = None
          /\ State'.key_pause_to = None
          /\ ~State'.emergency_stop
          /\ ~State'.auto_enabled
          /\ ~State'.keyhost_notified_once
          /\ \A f \in KeptFields : State'[f] = State[f]
          /\ disk' = save_state(State')]_vars

\* a reset of a tournament-mode state in its third match with a key out
C16_Witness ==
    /\ ev.op = "full_reset"
    /\ button
    /\ match2_break_task # None
    /\ State.match_no = 1
    /\ State.mode = "tournament"
    /\ State.commentary_channel_id = 2
    /\ State.match1_start = 1340

\* C17: a delivery the break task makes was scheduled after the last full
\* reset: a reset leaves no earlier scheduled delivery to distribute a key.
C17_NoDeliveryFromBeforeReset ==
    (ev.op = "deliver" /\ ev.called) => ~reset_since_schedule

\* C18: a restart brings the pending deferred distribution back as it was:
\* whether one is pending, the time it is due and the match it is for.
C18_PendingSendSurvivesRestart ==
    [][(ev'.op = "restart" /\ pending.pending_keyhost_send)
          => pending' = pending]_vars

\* C19: a start of the process after a kill inside a state write finds a
\* whole snapshot in the file and comes up.
C19_StartupAfterCrashSucceeds ==
    ev.op = "restart" => running

\* C20: a distribution that follows another one posts a key different from
\* the key the earlier one posted.
C20_NextKeyDiffers ==
    [][(ev.posted /\ ev'.posted) => State'.custom_key # State.custom_key]_vars

C22_PostedKeyIsStateKey ==
    [][(ev'.op = "key_drop_resume" /\ ev'.posted)
          => State'.custom_key = suspended]_vars

\* C23: an iteration of the loop that starts with the first-match trigger due
\* calls the distribution, whatever happened in its earlier steps.
C23_TriggerRunsInSameTick ==
    [][(ev'.op = "automation_loop" /\ is_event_day(now)
            /\ auto_trigger(State, now))
          => ev'.called]_vars

C25_FailedAttemptIsRetried ==
    (ev.op \in {"automation_loop", "deliver"} /\ ev.called /\ ~ev.ok)
        => \/ Armed /\ ~State.keyhost_notified_once
           \/ pending.pending_keyhost_send
           \/ match2_break_task # None

\* C26: an iteration of the loop that starts with auto_enabled false posts
\* no key and leaves match_no, phase, custom_key, the planned and
\* the confirmed departure and keyhost_notified_once as they were.
C26_ManualModeTickDistributesNothing ==
    [][(ev'.op = "automation_loop" /\ ~State.auto_enabled)
          => /\ ~ev'.posted
             /\ \A f \in {"match_no", "phase", "custom_key", "planned_departure",
                           "departure_time", "keyhost_notified_once"} :
                    State'[f] = State[f]]_vars

\* C27: with the emergency stop on and a key out, a press of queue_ready is
\* accepted: the departure time is set and the phase is DEPART_CONFIRMED.
C27_ConfirmAcceptedWhileStopped ==
    [][(ev'.op = "queue_ready" /\ State.emergency_stop
            /\ State.custom_key # None)
          => (State'.phase = "DEPART_CONFIRMED"
              /\ State'.departure_time # None)]_vars

\* C28: an iteration of the loop that finds a deferred send pending, its
\* time reached, no pause window and no emergency stop clears the pending
\* send and calls the distribution.
C28_DueDeferredSendIsReleased ==
    [][(/\ ev'.op = "automation_loop"
        /\ pending.pending_keyhost_send
        /\ pending.pending_keyhost_send_at # None
        /\ now >= parse_hhmm_dt(pending.pending_keyhost_send_at, now)
        /\ ~is_in_pause_window(State, now)
        /\ ~State.emergency_stop)
          => (ev'.called /\ ~pending'.pending_keyhost_send)]_vars

\* C29: a press of the done button announces a deferral only when no
\* deferred send for the same pause window is pending yet.
C29_DeferralAnnouncedOnce ==
    [][(ev'.op = "done" /\ ev'.announced)
          => ~(pending.pending_keyhost_send
               /\ pending.pending_keyhost_send_at = State.key_pause_to)]_vars

C31_ForceIgnoresSentDate ==
    [][\A k \in 1..4 :
          (/\ ev'.op = "checkin_emergency_send"
           /\ ev'.reason \in {<<"phase1", "phase2", "status", "phase4">>[k], "all"}
           /\ checkin_up
           /\ << State.checkin_phase1_sent_date, State.checkin_phase2_sent_date,
                 State.checkin_phase3_sent_date, State.checkin_phase4_sent_date
               >>[k] = date_of(now))
              => k \in ev'.forced]_vars

\* C31, the case: all four phases were delivered by the loop today, and a
\* forced send of all of them has sent each one again.
C31_Witness ==
    /\ ev.op = "checkin_emergency_send"
    /\ ev.reason = "all"
    /\ ev.forced = 1..4
    /\ \A k \in 1..4 : delivered[k] = 1

\* C32: the lists of checked-in, declined and forfeited numbers are pairwise
\* disjoint, and each holds only numbers of the roster.
C32_ListsDisjointWithinRoster ==
    /\ State.checked_in_numbers \cap State.declined_numbers = {}
    /\ State.checked_in_numbers \cap State.forfeit_numbers = {}
    /\ State.declined_numbers \cap State.forfeit_numbers = {}
    /\ (State.checked_in_numbers \cup State.declined_numbers
            \cup State.forfeit_numbers) \subseteq _extract_roster_numbers(guild)

\* C33: a press of the queue_ready button made when the round is already
\* DEPART_CONFIRMED leaves departure_time and phase as they are and sends no
\* further departure notice.
C33_SecondConfirmIsNoOp ==
    [][(ev'.op = "queue_ready" /\ State.phase = "DEPART_CONFIRMED")
          => (/\ State'.departure_time = State.departure_time
              /\ State'.phase = State.phase
              /\ ~ev'.ok)]_vars

\* C34: a match button pressed after the remaining minutes were entered
\* keeps the stored switch time, ends the pause window at it and starts the
\* window lead(new match_no) minutes before it.
C34_RoundChangeKeepsSwitchTime ==
    [][(/\ State'.match_no # State.match_no
        /\ State.map_switch_time # None
        /\ State'.map_remaining_min = State.map_remaining_min)
          => (/\ State'.map_switch_time = State.map_switch_time
              /\ State'.key_pause_to = State.map_switch_time
              /\ State'.key_pause_from =
                     hhmm(State.map_switch_time + DayMinutes
                             - lead(State'.match_no)))]_vars

\* C35: the task scheduled by a submission for match 2 posts the key of
\* match 3 only when no key has been distributed in match 3 yet, so the
\* submissions for match 2 lead to one delivery.
C35_BreakDeliversOnce ==
    [][(ev'.op = "deliver" /\ ev'.posted) => posted_in_round = 0]_vars

C37_FailedDistributionChangesNothing ==
    [][(ev'.called /\ ~ev'.ok)
          => (/\ ~ev'.caster
              /\ State'.custom_key = State.custom_key
              /\ State'.phase = State.phase
              /\ State'.planned_departure = State.planned_departure
              /\ State'.keyhost_notified_once = State.keyhost_notified_once)]_vars

\* C38: an iteration of automation_loop that follows a full reset of the
\* operator leaves auto_enabled false.
C38_TickKeepsManualMode ==
    [][(ev.op = "full_reset" /\ ev'.op = "automation_loop")
          => ~State'.auto_enabled]_vars

\* C39: an iteration of automation_loop changes the sent-date of a checkin
\* phase only when it delivered that phase.
C39_SentDateOnlyOnDelivery ==
    [][\A k \in 1..4 :
          (/\ ev'.op = "automation_loop"
           /\ << State'.checkin_phase1_sent_date, State'.checkin_phase2_sent_date,
                 State'.checkin_phase3_sent_date, State'.checkin_phase4_sent_date
               >>[k]
                # << State.checkin_phase1_sent_date, State.checkin_phase2_sent_date,
                     State.checkin_phase3_sent_date, State.checkin_phase4_sent_date
                   >>[k])
              => delivered'[k] > delivered[k]]_vars

\* C40: an iteration of automation_loop delivers a checkin phase only on the
\* configured event day.
C40_PhasesOnlyOnEventDay ==
    [][(ev'.op = "automation_loop"
        /\ \E k \in 1..4 : delivered'[k] > delivered[k])
          => is_event_day(now)]_vars

====
